---- MODULE Spec2Model ----
(***************************************************************************)
(* A model of log_filter_parse (src/src/lib.rs): the directive parser      *)
(* Filters::from_str and the matcher find_module / find_exact /            *)
(* is_enabled.                                                             *)
(*                                                                         *)
(* A Rust &str is modelled as a sequence of one-character strings (all     *)
(* characters are ASCII, so a char index is a byte index).  An Option is a *)
(* sequence of length 0 (None) or 1 (Some).  A log::LevelFilter is one of  *)
(* the strings of LevelFilters, ordered by its position there.  A HashMap  *)
(* is a function whose DOMAIN is its key set.                              *)
(***************************************************************************)
EXTENDS Integers, Sequences, FiniteSets, TLC

VARIABLES
    filters,    \* the Filters value: [kind, minimum]
    input,      \* None for a Filters made by Default, Some(s) for from_str(s)
    result,     \* the last query issued on the value and what it returned
    calls       \* for each caller sharing the value, where its call stands

vars == <<filters, input, result, calls>>

None == <<>>
Some(x) == <<x>>

----------------------------------------------------------------------------
(* Bounds of the inputs explored.                                          *)

\* The largest number of freely chosen directive tokens of an input string.
MaxTokens == 2

\* `d if d < 15`: the rule count from which from_str builds a Map.
Threshold == 15

----------------------------------------------------------------------------
(* log::LevelFilter and its parsing (the `log` crate, used at lib.rs 49,   *)
(* 79 and 136).                                                            *)

\* The variants of log::LevelFilter in increasing order (usize 0..5).
LevelFilters == <<"Off", "Error", "Warn", "Info", "Debug", "Trace">>

\* The variants of log::Level: a request's severity (usize 1..5).
Levels == {"Error", "Warn", "Info", "Debug", "Trace"}

\* `level as usize`.
Ordinal(level) == (CHOOSE i \in 1..Len(LevelFilters) : LevelFilters[i] = level) - 1

\* log's LOG_LEVEL_NAMES, indexed like LevelFilters.
LOG_LEVEL_NAMES ==
    << <<"O","F","F">>, <<"E","R","R","O","R">>, <<"W","A","R","N">>,
       <<"I","N","F","O">>, <<"D","E","B","U","G">>, <<"T","R","A","C","E">> >>

LowerAlpha ==
    <<"a","b","c","d","e","f","g","h","i","j","k","l","m",
      "n","o","p","q","r","s","t","u","v","w","x","y","z">>

UpperAlpha ==
    <<"A","B","C","D","E","F","G","H","I","J","K","L","M",
      "N","O","P","Q","R","S","T","U","V","W","X","Y","Z">>

\* char::to_ascii_uppercase: a lower-case ASCII letter to its upper-case
\* letter, any other character to itself.
AsciiUpperOf == [i \in 1..Len(LowerAlpha) |-> UpperAlpha[i]]

CharToAsciiUppercase(ch) ==
    LET at == {i \in 1..Len(LowerAlpha) : LowerAlpha[i] = ch}
    IN  IF at = {} THEN ch ELSE AsciiUpperOf[CHOOSE i \in at : TRUE]

\* str::to_ascii_uppercase.
to_ascii_uppercase(s) == [i \in 1..Len(s) |-> CharToAsciiUppercase(s[i])]

\* str::eq_ignore_ascii_case.
eq_ignore_ascii_case(a, b) ==
    /\ Len(a) = Len(b)
    /\ \A i \in 1..Len(a) : CharToAsciiUppercase(a[i]) = CharToAsciiUppercase(b[i])

\* <LevelFilter as FromStr>::from_str followed by .ok(): the position of the
\* name that equals the text ignoring ASCII case, as an Option.
ParseLevelFilter(s) ==
    LET at == {p \in 1..Len(LOG_LEVEL_NAMES) : eq_ignore_ascii_case(LOG_LEVEL_NAMES[p], s)}
    IN  IF at = {} THEN None ELSE Some(LevelFilters[CHOOSE p \in at : TRUE])

\* Iterator::max over Option-wrapped levels, by the derived Ord.
RECURSIVE MaxLevel(_)
MaxLevel(levels) ==
    IF Len(levels) = 0 THEN None
    ELSE LET rest == MaxLevel(Tail(levels))
         IN  IF rest # None /\ Ordinal(rest[1]) > Ordinal(Head(levels))
             THEN rest
             ELSE Some(Head(levels))

----------------------------------------------------------------------------
(* str::split and str::contains.                                           *)

\* The position of the first separator at or after `from`; Len(s) + 1 when
\* there is none.
NextSep(s, sep, from) ==
    LET at == {i \in from..Len(s) : s[i] = sep}
    IN  IF at = {} THEN Len(s) + 1
        ELSE CHOOSE i \in at : \A j \in at : i <= j

RECURSIVE SplitFrom(_, _, _)
SplitFrom(s, sep, from) ==
    LET end == NextSep(s, sep, from)
    IN  IF end > Len(s) THEN <<SubSeq(s, from, Len(s))>>
        ELSE <<SubSeq(s, from, end - 1)>> \o SplitFrom(s, sep, end + 1)

\* s.split(sep) collected: the pieces between separators, empty ones kept
\* (one more piece than there are separators).
Split(s, sep) == SplitFrom(s, sep, 1)

\* s.contains(ch).
Contains(s, ch) == \E i \in 1..Len(s) : s[i] = ch

----------------------------------------------------------------------------
(* The parser.                                                             *)

\* fn parse: the first two pieces of input.split('='), the second one
\* upper-cased and parsed; None when there is no second piece or it is no
\* level name.
parse(token) ==
    LET iter == Split(token, "=")
    IN  IF Len(iter) < 2 THEN None
        ELSE LET level == ParseLevelFilter(to_ascii_uppercase(iter[2]))
             IN  IF level = None THEN None
                 ELSE Some(<<iter[1], level[1]>>)

RECURSIVE FilterMapParse(_)
FilterMapParse(tokens) ==
    IF Len(tokens) = 0 THEN <<>>
    ELSE parse(Head(tokens)) \o FilterMapParse(Tail(tokens))

\* let mut mapping = input.split(',').filter_map(parse).collect::<Vec<_>>()
Mapping(s) == FilterMapParse(Split(s, ","))

RECURSIVE BareLevelsKeepOff(_)
BareLevelsKeepOff(tokens) ==
    IF Len(tokens) = 0 THEN <<>>
    ELSE (IF Contains(Head(tokens), "=") THEN None ELSE ParseLevelFilter(Head(tokens)))
         \o BareLevelsKeepOff(Tail(tokens))

\* Minimum without `.filter(|&l| l != log::LevelFilter::Off)`.
Minimum_KeepOff(s) == MaxLevel(BareLevelsKeepOff(Split(s, ",")))

RECURSIVE BareLevels(_)
BareLevels(tokens) ==
    IF Len(tokens) = 0 THEN <<>>
    ELSE LET s == Head(tokens)
             l == IF Contains(s, "=") THEN None ELSE ParseLevelFilter(s)
         IN  (IF l # None /\ l[1] # "Off" THEN l ELSE <<>>)
             \o BareLevels(Tail(tokens))

\* let minimum = input.split(',').filter(no '=').flat_map(parse).filter(not Off).max()
Minimum(s) == MaxLevel(BareLevels(Split(s, ",")))

\* mapping.into_iter().collect::<HashMap<_, _>>(): a later entry of a key
\* replaces the earlier one.
RECURSIVE CollectMap(_)
CollectMap(mapping) ==
    IF Len(mapping) = 0 THEN <<>>
    ELSE LET n    == Len(mapping)
             init == CollectMap(SubSeq(mapping, 1, n - 1))
             key  == mapping[n][1]
         IN  [k \in (DOMAIN init) \cup {key} |->
                 IF k = key THEN mapping[n][2] ELSE init[k]]

\* Kind with `d if d <= 15` for `d if d < 15`.
Kind_OffByOne(mapping, minimum) ==
    IF Len(mapping) = 0 /\ minimum = None THEN [tag |-> "Default"]
    ELSE IF Len(mapping) = 0 THEN [tag |-> "Blanket"]
    ELSE IF Len(mapping) <= Threshold THEN [tag |-> "List", levels |-> mapping]
    ELSE [tag |-> "Map", levels |-> CollectMap(mapping)]

\* let kind = match mapping.len() { ... }
Kind(mapping, minimum) ==
    IF Len(mapping) = 0 /\ minimum = None THEN [tag |-> "Default"]
    ELSE IF Len(mapping) = 0 THEN [tag |-> "Blanket"]
    ELSE IF Len(mapping) < Threshold THEN [tag |-> "List", levels |-> mapping]
    ELSE [tag |-> "Map", levels |-> CollectMap(mapping)]

\* Filters::from_str
from_str(s) ==
    LET mapping == Mapping(s)
        minimum == Minimum(s)
    IN  [kind |-> Kind(mapping, minimum), minimum |-> minimum]

\* impl Default for Filters
Filters_default == [kind |-> [tag |-> "Default"], minimum |-> None]

----------------------------------------------------------------------------
(* The matcher.                                                            *)

RECURSIVE FindMap(_, _, _)
\* levels.iter().find_map(|(m, level)| if m == module { Some(*level) } else { None })
FindMap(levels, module, i) ==
    IF i > Len(levels) THEN None
    ELSE IF levels[i][1] = module THEN Some(levels[i][2])
    ELSE FindMap(levels, module, i + 1)

\* Filters::find_exact
find_exact(self, module) ==
    CASE self.kind.tag = "Default" -> None
      [] self.kind.tag = "Blanket" -> self.minimum
      [] self.kind.tag = "List"    -> FindMap(self.kind.levels, module, 1)
      [] self.kind.tag = "Map"     ->
            IF module \in DOMAIN self.kind.levels
            THEN Some(self.kind.levels[module])
            ELSE None

\* The loop trying the prefixes from the shortest to the longest.
Scan_ShortestFirst(self, module, pos, last) ==
    LET hits == {k \in 0..(Len(module) - 2) :
                    /\ module[k + 1] = ":"
                    /\ module[k + 2] = ":"
                    /\ find_exact(self, SubSeq(module, 1, k)) # None}
    IN  IF hits = {} THEN self.minimum
        ELSE find_exact(self, SubSeq(module, 1, CHOOSE k \in hits : \A h \in hits : k <= h))

RECURSIVE Scan_Overlapping(_, _, _, _)
\* The loop without `last = false` at a colon that follows a colon, so that
\* the colon is also taken as the second one of the next pair.
Scan_Overlapping(self, module, pos, last) ==
    IF pos = 0 THEN self.minimum
    ELSE LET ch == module[pos]
         IN  IF last /\ ch = ":"
             THEN LET level == find_exact(self, SubSeq(module, 1, pos - 1))
                  IN  IF level # None THEN level
                      ELSE Scan_Overlapping(self, module, pos - 1, TRUE)
             ELSE Scan_Overlapping(self, module, pos - 1, ch = ":")

RECURSIVE Scan(_, _, _, _)
\* The loop of find_module: for (i, ch) in module.char_indices().rev(), from
\* the character at position pos (1-based, byte index pos - 1) down, with the
\* flag `last`; after the loop, self.minimum.
Scan(self, module, pos, last) ==
    IF pos = 0 THEN self.minimum
    ELSE LET ch == module[pos]
         IN  IF last
             THEN IF ch = ":"
                  THEN LET level == find_exact(self, SubSeq(module, 1, pos - 1))
                       IN  IF level # None THEN level
                           ELSE Scan(self, module, pos - 1, FALSE)
                  ELSE Scan(self, module, pos - 1, FALSE)
             ELSE Scan(self, module, pos - 1, ch = ":")

\* find_module answering None for Blanket as it does for Default.
find_module_BlanketAbsent(self, module) ==
    CASE self.kind.tag \in {"Default", "Blanket"} -> None
      [] OTHER ->
            LET level == find_exact(self, module)
            IN  IF level # None THEN level
                ELSE Scan(self, module, Len(module), FALSE)

\* Filters::find_module
find_module(self, module) ==
    CASE self.kind.tag = "Default" -> None
      [] self.kind.tag = "Blanket" -> self.minimum
      [] OTHER ->
            LET level == find_exact(self, module)
            IN  IF level # None THEN level
                ELSE Scan(self, module, Len(module), FALSE)

\* metadata.level() < level.
LevelLe_Strict(level, filter) == Ordinal(level) < Ordinal(filter)

\* metadata.level() <= level: Level against LevelFilter, by `as usize`.
LevelLe(level, filter) == Ordinal(level) <= Ordinal(filter)

\* Filters::is_enabled, on metadata with this target and level
is_enabled(self, target, level) ==
    LET found == find_module(self, target)
    IN  IF found # None THEN LevelLe(level, found[1]) ELSE FALSE

----------------------------------------------------------------------------
(* The inputs explored.                                                    *)

\* Directive tokens: bare levels (valid, off, mixed case) and module=level
\* pairs (nested modules, a repeated module, an upper-case level, an empty
\* module, both sides empty, a level that is no level, a second `=`, a
\* module ending in a colon).
Vocabulary ==
    { <<"d","e","b","u","g">>,
      <<"o","f","f">>,
      <<"I","n","f","o">>,
      <<"a","=","i","n","f","o">>,
      <<"a","=","t","r","a","c","e">>,
      <<"a",":",":","b","=","e","r","r","o","r">>,
      <<"a",":",":","b",":",":","c","=","o","f","f">>,
      <<"=","i","n","f","o">>,
      <<"=">>,
      <<"b","=","x">>,
      <<"b","=","w","a","r","n","=","x">>,
      <<"a",":","=","E","r","r","o","r">> }

FillerAlpha == <<"p","q","r","s","t","u">>

\* The i-th filler rule: a two-letter module of its own, at level warn.
FillerToken(i) ==
    << FillerAlpha[((i - 1) \div Len(FillerAlpha)) + 1],
       FillerAlpha[((i - 1) % Len(FillerAlpha)) + 1] >> \o <<"=","w","a","r","n">>

Fillers(k) == [i \in 1..k |-> FillerToken(i)]

RECURSIVE Join(_)
\* The tokens joined by commas.
Join(tokens) ==
    IF Len(tokens) = 0 THEN <<>>
    ELSE IF Len(tokens) = 1 THEN tokens[1]
    ELSE tokens[1] \o <<",">> \o Join(Tail(tokens))

TokenSeqs == UNION {[1..n -> Vocabulary] : n \in 0..MaxTokens}

\* No fillers, or enough of them to bring the rule count to either side of
\* Threshold whatever the free tokens add.
PadCounts == {0} \cup ((Threshold - 1 - MaxTokens)..Threshold)

\* The directive strings from_str is called with.
Inputs == {Join(toks \o Fillers(k)) : toks \in TokenSeqs, k \in PadCounts}

\* The module paths queried: well-formed paths (known, nested, unknown, a
\* filler module), a path starting with `::`, and paths with a single colon
\* and with runs of three and four colons.
Modules ==
    { <<"a">>,
      <<"a",":",":","b">>,
      <<"a",":",":","b",":",":","c",":",":","d">>,
      <<"z",":",":","a">>,
      <<"p","q">>,
      <<":",":","a">>,
      <<"a",":","b">>,
      <<"a",":",":",":","b">>,
      <<"a",":",":",":",":","b">> }

\* The targets of the metadata is_enabled is called with.
Targets ==
    { <<"a">>,
      <<"a",":",":","b",":",":","c",":",":","d">>,
      <<"z",":",":","a">>,
      <<"p","q">> }

NoResult == [op |-> "none"]

\* The callers that share one value.
Callers == {"c1", "c2"}

\* The tokens of the directive strings of a shared value.
SharedVocabulary ==
    { <<"d","e","b","u","g">>,
      <<"a","=","i","n","f","o">>,
      <<"a",":",":","b","=","e","r","r","o","r">> }

\* The directive strings a shared value is built from: short ones, giving
\* Default, Blanket and List, and ones with Threshold fillers, giving Map.
SharedInputs ==
    {Join(toks \o Fillers(k)) :
        toks \in UNION {[1..n -> SharedVocabulary] : n \in 0..MaxTokens},
        k \in {0, Threshold}}

\* The module paths the callers ask for.
SharedModules ==
    { <<"a",":",":","b",":",":","c",":",":","d">>,
      <<"z",":",":","a">> }

\* The levels of the records the callers ask about.
SharedLevels == {"Error", "Debug"}

Idle == [pc |-> "idle"]

----------------------------------------------------------------------------
(* The state machine: a Filters value is built once and then queried, one  *)
(* call at a time; `result` holds the call that has returned and not yet   *)
(* been consumed by its caller.                                            *)

Init ==
    /\ filters = Filters_default
    /\ input = None
    /\ result = NoResult
    /\ calls = [c \in Callers |-> Idle]

\* let filters = Filters::from_str(s), for some directive string s
FromStr ==
    /\ input = None
    /\ result = NoResult
    /\ \E s \in Inputs :
          /\ filters' = from_str(s)
          /\ input' = Some(s)
    /\ UNCHANGED <<result, calls>>

\* filters.find_module(module): &self, so the value is left as it is
FindModule ==
    /\ result = NoResult
    /\ \E module \in Modules :
          result' = [op |-> "find_module", module |-> module,
                     ret |-> find_module(filters, module)]
    /\ UNCHANGED <<filters, input, calls>>

\* filters.is_enabled(metadata): &self, so the value is left as it is
IsEnabled ==
    /\ result = NoResult
    /\ \E target \in Targets, level \in Levels :
          result' = [op |-> "is_enabled", module |-> target, level |-> level,
                     ret |-> is_enabled(filters, target, level)]
    /\ UNCHANGED <<filters, input, calls>>

\* The caller takes the returned value; the next call can be made.
Return ==
    /\ result # NoResult
    /\ result' = NoResult
    /\ UNCHANGED <<filters, input, calls>>

Next ==
    \/ FromStr
    \/ FindModule
    \/ IsEnabled
    \/ Return

Spec == Init /\ [][Next]_vars

----------------------------------------------------------------------------
(* The state machine of a shared value: the value is built once and then   *)
(* queried through &self by several callers at once.  A call is a run of   *)
(* steps, one for each time it reads the value (the kind and the exact     *)
(* lookup, each lookup of a prefix, the minimum), and the steps of the     *)
(* callers interleave in any order.                                        *)

\* let filters = Filters::from_str(s), before the value is shared
SharedFromStr ==
    /\ input = None
    /\ \A c \in Callers : calls[c] = Idle
    /\ \E s \in SharedInputs :
          /\ filters' = from_str(s)
          /\ input' = Some(s)
    /\ UNCHANGED <<result, calls>>

\* What the call returns once find_module has its answer: the answer
\* itself, or for is_enabled the match on it.
Returned(call, found) ==
    [pc |-> "done", op |-> call.op, module |-> call.module, level |-> call.level,
     ret |-> IF call.op = "find_module" THEN found
             ELSE IF found # None THEN LevelLe(call.level, found[1]) ELSE FALSE]

\* The call goes on into the loop, from the character at pos down.
Scanning(call, pos) ==
    [pc |-> "scan", op |-> call.op, module |-> call.module, level |-> call.level,
     pos |-> pos]

\* The start of find_module: the match on self.kind and the exact lookup.
Begin(call) ==
    CASE filters.kind.tag = "Default" -> Returned(call, None)
      [] filters.kind.tag = "Blanket" -> Returned(call, filters.minimum)
      [] OTHER ->
            LET found == find_exact(filters, call.module)
            IN  IF found # None THEN Returned(call, found)
                ELSE Scanning(call, Len(call.module))

\* A caller calls filters.find_module(module).
CallFindModule ==
    /\ \E c \in Callers, module \in SharedModules :
          /\ calls[c] = Idle
          /\ calls' = [calls EXCEPT ![c] =
                Begin([op |-> "find_module", module |-> module, level |-> "Error"])]
    /\ UNCHANGED <<filters, input, result>>

\* A caller calls filters.is_enabled(metadata).
CallIsEnabled ==
    /\ \E c \in Callers, module \in SharedModules, level \in SharedLevels :
          /\ calls[c] = Idle
          /\ calls' = [calls EXCEPT ![c] =
                Begin([op |-> "is_enabled", module |-> module, level |-> level])]
    /\ UNCHANGED <<filters, input, result>>

RECURSIVE NextCandidate(_, _, _)
\* The loop up to its next lookup: the position of the first colon, from
\* pos down, that follows (is met right after) another one; 0 when the loop
\* ends without one.
NextCandidate(module, pos, last) ==
    IF pos = 0 THEN 0
    ELSE IF last
         THEN IF module[pos] = ":" THEN pos
              ELSE NextCandidate(module, pos - 1, FALSE)
         ELSE NextCandidate(module, pos - 1, module[pos] = ":")

\* The step with the answer found kept in the value as its new minimum.
StepScan_Memo(c) ==
    /\ calls[c].pc = "scan"
    /\ LET call  == calls[c]
           at    == NextCandidate(call.module, call.pos, FALSE)
           found == IF at = 0 THEN filters.minimum
                    ELSE find_exact(filters, SubSeq(call.module, 1, at - 1))
       IN  IF at = 0 \/ found # None
           THEN /\ calls' = [calls EXCEPT ![c] = Returned(call, found)]
                /\ filters' = [filters EXCEPT !.minimum = found]
           ELSE /\ calls' = [calls EXCEPT ![c] = Scanning(call, at - 1)]
                /\ UNCHANGED filters
    /\ UNCHANGED <<input, result>>

\* The loop of find_module up to and with its next read of the value: the
\* lookup of the next prefix, or self.minimum after the loop.
StepScan(c) ==
    /\ calls[c].pc = "scan"
    /\ LET call  == calls[c]
           at    == NextCandidate(call.module, call.pos, FALSE)
           found == IF at = 0 THEN filters.minimum
                    ELSE find_exact(filters, SubSeq(call.module, 1, at - 1))
       IN  IF at = 0 \/ found # None
           THEN calls' = [calls EXCEPT ![c] = Returned(call, found)]
           ELSE calls' = [calls EXCEPT ![c] = Scanning(call, at - 1)]
    /\ UNCHANGED <<filters, input, result>>

\* The caller takes the returned value and may call again.
SharedReturn(c) ==
    /\ calls[c].pc = "done"
    /\ calls' = [calls EXCEPT ![c] = Idle]
    /\ UNCHANGED <<filters, input, result>>

SharedNext ==
    \/ SharedFromStr
    \/ CallFindModule
    \/ CallIsEnabled
    \/ \E c \in Callers : StepScan(c)
    \/ \E c \in Callers : SharedReturn(c)

SharedSpec == Init /\ [][SharedNext]_vars


----------------------------------------------------------------------------
(* What the claims speak of.                                               *)

\* The comma-separated tokens of the input the value was built from.
InputTokens == IF input = None THEN <<>> ELSE Split(input[1], ",")

\* The number of the tokens that gave a rule, duplicates counted.
RuleCountOf(toks) == Cardinality({i \in DOMAIN toks : parse(toks[i]) # None})

RuleCount == RuleCountOf(InputTokens)

RankOf(level) ==
    CASE level = "Off" -> 0 [] level = "Error" -> 1 [] level = "Warn" -> 2
      [] level = "Info" -> 3 [] level = "Debug" -> 4 [] level = "Trace" -> 5

\* The levels other than Off named, in any case, by a token without `=`.
QualifyingLevels(toks) ==
    {l \in Levels : \E i \in DOMAIN toks :
        /\ ~Contains(toks[i], "=")
        /\ \E p \in DOMAIN LevelFilters :
              /\ LevelFilters[p] = l
              /\ eq_ignore_ascii_case(toks[i], LOG_LEVEL_NAMES[p])}

\* The most verbose qualifying level, absent when there is none.
MostVerbose(ls) ==
    IF ls = {} THEN None
    ELSE Some(CHOOSE l \in ls : \A k \in ls : RankOf(k) <= RankOf(l))

ExpectedMinimum == LET toks == InputTokens IN MostVerbose(QualifyingLevels(toks))

\* The rules a value holds, as a set of <<module, level>> pairs.
RuleSet(f) ==
    CASE f.kind.tag = "List" -> {f.kind.levels[i] : i \in DOMAIN f.kind.levels}
      [] f.kind.tag = "Map"  -> {<<k, f.kind.levels[k]>> : k \in DOMAIN f.kind.levels}
      [] OTHER -> {}

\* Every parsed rule has a module name of its own.
DistinctNames ==
    CASE filters.kind.tag = "List" ->
            \A i, j \in DOMAIN filters.kind.levels :
                filters.kind.levels[i][1] = filters.kind.levels[j][1] => i = j
      [] filters.kind.tag = "Map" -> Cardinality(DOMAIN filters.kind.levels) = RuleCount
      [] OTHER -> TRUE

\* Non-empty colon-free segments joined by `::`.
WellFormed(m) ==
    /\ Len(m) > 0
    /\ m[1] # ":"
    /\ m[Len(m)] # ":"
    /\ \A i \in 1..Len(m) : m[i] = ":" =>
          ((i > 1 /\ m[i - 1] = ":") # (i < Len(m) /\ m[i + 1] = ":"))

\* The lengths of the prefixes of m that end right before a `::`.
Occurrences(m) == {k \in 0..(Len(m) - 2) : m[k + 1] = ":" /\ m[k + 2] = ":"}

RECURSIVE RightPaired(_, _)
\* The occurrences met by taking the last `::` of the first n characters,
\* cutting the path there, and going on in what is left.
RightPaired(m, n) ==
    LET in == {k \in Occurrences(m) : k + 2 <= n}
    IN  IF in = {} THEN {}
        ELSE LET k == CHOOSE x \in in : \A y \in in : y <= x
             IN  {k} \cup RightPaired(m, k)

\* The answer of the longest prefix, among those of the lengths ks, that has
\* a rule; the minimum when none has.
LongestHit(f, m, ks) ==
    LET hits == {k \in ks : find_exact(f, SubSeq(m, 1, k)) # None}
    IN  IF hits = {} THEN f.minimum
        ELSE find_exact(f, SubSeq(m, 1, CHOOSE k \in hits : \A h \in hits : h <= k))

IsFind == result.op = "find_module"
IsEnabledCall == result.op = "is_enabled"
HasRules == filters.kind.tag \in {"List", "Map"}

----------------------------------------------------------------------------
(* C1: for a value built by from_str with at least one rule, find_module   *)
(* on a well-formed path returns the level of the rule named by the        *)
(* longest of the path and its prefixes ending at a `::` boundary, and the *)
(* minimum when none of them has a rule.  With distinct rule names there   *)
(* is one rule of that name; the formula covers repeated names too, where  *)
(* the level is that of a rule of that name.                               *)
C1_LongestPrefixWins ==
    (IsFind /\ input # None /\ HasRules /\ WellFormed(result.module)) =>
        LET m    == result.module
            hits == {k \in Occurrences(m) \cup {Len(m)} :
                        \E r \in RuleSet(filters) : r[1] = SubSeq(m, 1, k)}
        IN  IF hits = {} THEN result.ret = filters.minimum
            ELSE LET k == CHOOSE x \in hits : \A h \in hits : h <= x
                 IN  \E r \in RuleSet(filters) :
                        r[1] = SubSeq(m, 1, k) /\ result.ret = Some(r[2])

\* a::b and a::b::c both have a rule, in a Map, and a::b::c::d gets a::b::c's.
C1_Witness ==
    /\ IsFind
    /\ filters.kind.tag = "Map"
    /\ result.module = <<"a",":",":","b",":",":","c",":",":","d">>
    /\ result.ret = Some("Off")
    /\ <<"a",":",":","b">> \in DOMAIN filters.kind.levels
    /\ <<"a",":",":","b",":",":","c">> \in DOMAIN filters.kind.levels
    /\ DistinctNames

(* C2: is_enabled is true exactly when find_module resolves to a threshold *)
(* and the requested level's ordinal is at most the threshold's, in the    *)
(* order Off < Error < Warn < Info < Debug < Trace.                        *)
C2_EnabledIffWithinThreshold ==
    IsEnabledCall =>
        LET found == find_module(filters, result.module)
        IN  /\ result.ret = (found # None /\ RankOf(result.level) <= RankOf(found[1]))
            /\ found = None => result.ret = FALSE
            /\ found = Some("Off") => result.ret = FALSE
            /\ found = Some("Trace") => result.ret = TRUE

\* A request at level Trace is admitted by a threshold of Trace.
C2_Witness ==
    /\ IsEnabledCall
    /\ find_module(filters, result.module) = Some("Trace")
    /\ result.level = "Trace"
    /\ result.ret = TRUE

(* C3: the minimum from_str computes is the most verbose level among the   *)
(* tokens without `=` that name a level other than Off, absent when no     *)
(* token qualifies.                                                        *)
C3_Minimum ==
    (input # None /\ result = NoResult) => filters.minimum = ExpectedMinimum

\* `debug,off` gives Debug.
C3_Witness ==
    /\ input = Some(<<"d","e","b","u","g",",","o","f","f">>)
    /\ filters.minimum = Some("Debug")

(* C4: the kind is Default iff there is no rule and no minimum, Blanket    *)
(* iff there is no rule and a minimum, List iff there are 1 to 14 parsed   *)
(* rules (duplicates counted), Map iff there are 15 or more.               *)
C4_KindByRuleCount ==
    result = NoResult =>
        LET n == RuleCount
        IN  /\ filters.kind.tag = "Default" <=> (n = 0 /\ filters.minimum = None)
            /\ filters.kind.tag = "Blanket" <=> (n = 0 /\ filters.minimum # None)
            /\ filters.kind.tag = "List" <=> (1 <= n /\ n <= 14)
            /\ filters.kind.tag = "Map" <=> n >= 15

\* Exactly 15 parsed rules, two of them for one module, make a Map of 14 keys.
C4_Witness ==
    /\ result = NoResult
    /\ filters.kind.tag = "Map"
    /\ RuleCount = 15
    /\ Cardinality(DOMAIN filters.kind.levels) = 14

(* C5: when the input gives no rule, find_module answers the same for      *)
(* every module: the most verbose valid non-off bare level, absent when    *)
(* there is none; for the empty input is_enabled is false.  A value that   *)
(* holds rules is first shown to come from an input that gives some, so    *)
(* that the inputs giving none are those of the values without rules.      *)
C5_NoRulesSameAnswer ==
    /\ (result = NoResult /\ HasRules) => RuleCount > 0
    /\ (IsFind /\ ~HasRules /\ RuleCount = 0) => result.ret = ExpectedMinimum
    /\ (IsEnabledCall /\ input = Some(<<>>)) => result.ret = FALSE

\* `debug,Info` answers Debug for an unknown module.
C5_Witness ==
    /\ IsFind
    /\ input = Some(<<"d","e","b","u","g",",","I","n","f","o">>)
    /\ result.module = <<"z",":",":","a">>
    /\ result.ret = Some("Debug")

\* The tokens C6 speaks of: no `=`, or one `=` with an empty module side, an
\* empty level side or a level text that is no level name.
DroppedClass(tok) ==
    \/ ~Contains(tok, "=")
    \/ /\ Len(Split(tok, "=")) = 2
       /\ \/ Split(tok, "=")[1] = <<>>
          \/ Split(tok, "=")[2] = <<>>
          \/ ParseLevelFilter(Split(tok, "=")[2]) = None

RemoveAt(toks, i) == SubSeq(toks, 1, i - 1) \o SubSeq(toks, i + 1, Len(toks))

\* The two values hold the same rules in the same representation.
SameRules(f, g) ==
    IF f.kind.tag \in {"List", "Map"}
    THEN f.kind = g.kind
    ELSE g.kind.tag \notin {"List", "Map"}

(* C6: a token without `=`, or with an empty module side, an empty level   *)
(* side or a level text that is no level name, adds no rule, and the rules *)
(* of the value built are those of the value built from the input without  *)
(* that token.  (Tokens with a second `=` are left to C10.)                *)
C6_DroppedTokensAddNoRule ==
    (result = NoResult /\ input # None) =>
        LET toks == InputTokens
        IN  \A i \in DOMAIN toks : DroppedClass(toks[i]) =>
                /\ parse(toks[i]) = None
                /\ SameRules(filters, from_str(Join(RemoveAt(toks, i))))

\* The value with the same rules and minimum in the other representation.
OtherRepresentation ==
    IF filters.kind.tag = "List"
    THEN [kind |-> [tag |-> "Map", levels |-> CollectMap(filters.kind.levels)],
          minimum |-> filters.minimum]
    ELSE [kind |-> [tag |-> "List", levels |-> Mapping(input[1])],
          minimum |-> filters.minimum]

(* C7: a value holding a sequence of rules as a List and one holding the   *)
(* same sequence as a Map, with the same minimum, answer find_module alike *)
(* for every module.                                                       *)
C7_ListMapAgree ==
    (IsFind /\ input # None /\ HasRules) =>
        result.ret = find_module(OtherRepresentation, result.module)

\* The value as it was built.
FreshValue == IF input = None THEN Filters_default ELSE from_str(input[1])

(* C8: no find_module or is_enabled call changes the value's kind, rules   *)
(* or minimum: however the calls of the callers interleave, the value      *)
(* stays the one that was built, and every call returns the answer of a    *)
(* first call on the freshly built value.                                  *)
C8_SharedValueUnchanged ==
    /\ filters = FreshValue
    /\ \A c \in Callers : calls[c].pc = "done" =>
          calls[c].ret =
              IF calls[c].op = "find_module"
              THEN find_module(filters, calls[c].module)
              ELSE is_enabled(filters, calls[c].module, calls[c].level)

\* One caller is in the middle of its loop on a Map while the other has
\* its answer, found at a prefix.
C8_Witness ==
    /\ filters.kind.tag = "Map"
    /\ calls["c1"].pc = "scan"
    /\ calls["c1"].pos < Len(calls["c1"].module)
    /\ calls["c2"].pc = "done"
    /\ calls["c2"].op = "find_module"
    /\ calls["c2"].module = <<"a",":",":","b",":",":","c",":",":","d">>
    /\ calls["c2"].ret = Some("Error")

(* C9, as claimed: without an exact match, every occurrence of `::` in the *)
(* path gives a candidate prefix, the candidates are looked up from the    *)
(* last occurrence to the first, the first with a rule decides, and the    *)
(* minimum is returned only when none has a rule.                          *)
C9_EveryOccurrence ==
    (IsFind /\ HasRules /\ find_exact(filters, result.module) = None) =>
        result.ret = LongestHit(filters, result.module, Occurrences(result.module))

(* C9, amended: the candidates are the occurrences of `::` met by taking   *)
(* the last one, cutting the path before it and going on in what is left,  *)
(* so that the colons of a run are paired from its right end and an        *)
(* occurrence overlapping one to its right gives no candidate.             *)
C9_RightPairedOccurrences ==
    (IsFind /\ HasRules /\ find_exact(filters, result.module) = None) =>
        result.ret = LongestHit(filters, result.module,
                                RightPaired(result.module, Len(result.module)))

\* With rules for `a` and `a:`, `a:::b` gets the level of `a:`.
C9_Witness ==
    /\ IsFind
    /\ result.module = <<"a",":",":",":","b">>
    /\ find_exact(filters, <<"a">>) = Some("Info")
    /\ find_exact(filters, <<"a",":">>) = Some("Error")
    /\ result.ret = Some("Error")

\* The rule of a token split at its first `=` only.
RuleAtFirstEq(tok) ==
    IF ~Contains(tok, "=") THEN None
    ELSE LET k     == NextSep(tok, "=", 1)
             level == ParseLevelFilter(SubSeq(tok, k + 1, Len(tok)))
         IN  IF level = None THEN None
             ELSE Some(<<SubSeq(tok, 1, k - 1), level[1]>>)

RECURSIVE RulesAtFirstEq(_)
RulesAtFirstEq(toks) ==
    IF Len(toks) = 0 THEN <<>>
    ELSE RuleAtFirstEq(Head(toks)) \o RulesAtFirstEq(Tail(toks))

(* C10: a token is split at its first `=` only: the module is the text     *)
(* before it, the level text all of the rest, and the token gives a rule   *)
(* only if that whole text is a level name in any case; rules are kept in  *)
(* input order, duplicates included.                                       *)
C10_SplitAtFirstEq ==
    (result = NoResult /\ input # None) =>
        LET rules == RulesAtFirstEq(InputTokens)
        IN  CASE filters.kind.tag = "List" -> filters.kind.levels = rules
              [] filters.kind.tag = "Map"  ->
                    /\ Len(rules) >= 15
                    /\ DOMAIN filters.kind.levels = {rules[i][1] : i \in DOMAIN rules}
              [] OTHER -> rules = <<>>

====
